---- MODULE Spec2Model ----
(***************************************************************************)
(* The idle-monitor portal of xdg-desktop-portal (src/src/idle-monitor.c). *)
(*                                                                         *)
(* Threads: the main loop runs handle_get_idletime, get_idletime_done,     *)
(* watch_fired_cb and the Request's Close handler; every GetIdletime call  *)
(* queues one GTask whose thread function                                  *)
(* (handle_get_idletime_in_thread_func) runs on a pool thread.  A worker   *)
(* is split at its accesses to shared state: the read of the permission    *)
(* store, the write to it, and the issue of the backend call.              *)
(***************************************************************************)
EXTENDS Integers, Sequences, FiniteSets, TLC

\* ---------------------------------------------------------------- bounds

\* Number of GetIdletime calls received in one run.
MaxRequests == 2
\* Largest watch id the backend and the clients use (ids are 0..MaxWatch).
MaxWatch == 2

\* ------------------------------------------------------------- constants

PERMISSION_TABLE == "idle-monitor"
PERMISSION_ID == "idle-monitor"

PERMISSION_UNSET == "Unset"
PERMISSION_NO == "No"
PERMISSION_YES == "Yes"
Permission == {PERMISSION_UNSET, PERMISSION_NO, PERMISSION_YES}

\* The response code get_idletime_done falls back to when the call failed.
RESPONSE_OTHER == 2

\* Application ids; every application is also one client connection on the bus.
Apps == {"com.example.A", "com.example.B"}
NoApp == "none"

Requests == 1..MaxRequests
WatchIds == 0..MaxWatch

\* The keys of the permission store: the portal's own and a foreign one.
PermissionKeys == {<<PERMISSION_TABLE, PERMISSION_ID>>, <<"background", "background">>}

\* What the backend call can end with: a reply carrying its one out-argument,
\* or an error.
OutValues == {0, 4200}
Errors == {"unavailable", "malformed"}
Results == [ok : {TRUE}, out : OutValues, error : {"none"}]
             \cup [ok : {FALSE}, out : {0}, error : Errors]
NoResult == [ok |-> FALSE, out |-> 0, error |-> "pending"]

\* The payloads of the backend's watch-fired signal: a{sv} as a set of
\* <<key, value>> pairs, with or without the "session-state" entry.
Payloads == {{}} \cup {{<<"session-state", w>>} : w \in WatchIds}
              \cup {{<<"other", w>>} : w \in WatchIds}
Sessions == {"/session/1"}

\* The arguments of a GetIdletime call: window, flags and options.
Arguments == {[window |-> "", flags |-> 0, options |-> {}],
              [window |-> "x11:2a", flags |-> 1, options |-> {<<"interval", 5>>}]}
NoInvocation == [request |-> 0, arguments |-> [window |-> "", flags |-> 0, options |-> {}]]

VARIABLES
  impl,           \* the backend proxy: "NULL" or "proxy"
  idle_monitor,   \* the interface object: "NULL" or "object"
  connected,      \* watch_fired_cb is connected to impl's watch-fired signal
  started,        \* idle_monitor_create has run
  permissions,    \* the permission store: <<app, table, id>> -> Permission
  requests,       \* the Request objects
  tasks,          \* the GTask of each Request and its thread function's locals
  calls,          \* the backend call of each Request
  responses,      \* the Response signals emitted on each Request
  main,           \* the Request whose completion callback the main loop is in, or 0
  watches,        \* the owner of each registered watch
  delivered,      \* the WatchFired signals delivered, per receiving client
  signal,         \* the payload of the last watch-fired signal of the backend
  invocation,     \* the GetIdletime invocation the main loop is handling, if any
  replies         \* the token returned to the caller of each GetIdletime call, or 0

vars == <<impl, idle_monitor, connected, started, permissions, requests, tasks,
          calls, responses, main, watches, delivered, signal, invocation, replies>>
invoke_vars == <<invocation, replies>>
request_vars == <<permissions, requests, tasks, calls, responses, main, invoke_vars>>
watch_vars == <<watches, delivered, signal>>
create_vars == <<impl, idle_monitor, connected, started>>

\* -------------------------------------------------------------- the store

PermKey(app_id, table, id) == <<app_id, table, id>>

get_permission_sync(store, app_id, table, id) == store[PermKey(app_id, table, id)]

set_permission_sync(store, app_id, table, id, value) ==
  [store EXCEPT ![PermKey(app_id, table, id)] = value]

\* ------------------------------------------------------------- the state

NoRequest == [created |-> FALSE, app_id |-> NoApp, exported |-> FALSE,
              closed |-> FALSE, mutex |-> "free", refs |-> 0]
NoTask == [pc |-> "none", permission |-> "none", allowed |-> FALSE, wrote |-> FALSE]
NoCall == [state |-> "none", handle |-> 0, app_id |-> NoApp, result |-> NoResult]

Init ==
  /\ impl = "NULL"
  /\ idle_monitor = "NULL"
  /\ connected = FALSE
  /\ started = FALSE
  /\ permissions \in [{PermKey(a, k[1], k[2]) : a \in Apps, k \in PermissionKeys} -> Permission]
  /\ \A a \in Apps : permissions[PermKey(a, "background", "background")] = PERMISSION_UNSET
  /\ requests = [r \in Requests |-> NoRequest]
  /\ tasks = [r \in Requests |-> NoTask]
  /\ calls = [r \in Requests |-> NoCall]
  /\ responses = [r \in Requests |-> <<>>]
  /\ main = 0
  /\ watches = [w \in WatchIds |-> NoApp]
  /\ delivered = {}
  /\ signal = {}
  /\ invocation = NoInvocation
  /\ replies = [r \in Requests |-> 0]

\* ------------------------------------------------------ idle_monitor_create

\* idle_monitor_create without its test of impl == NULL.
idle_monitor_create_unchecked(proxy_ok) ==
  /\ ~started
  /\ started' = TRUE
  /\ impl' = IF proxy_ok THEN "proxy" ELSE "NULL"
  /\ idle_monitor' = "object"
  /\ connected' = TRUE
  /\ UNCHANGED <<request_vars, watch_vars>>

idle_monitor_create(proxy_ok) ==
  /\ ~started
  /\ started' = TRUE
  /\ IF proxy_ok
       THEN /\ impl' = "proxy"
            /\ idle_monitor' = "object"
            /\ connected' = TRUE
       ELSE /\ impl' = "NULL"
            /\ UNCHANGED <<idle_monitor, connected>>
  /\ UNCHANGED <<request_vars, watch_vars>>

\* ---------------------------------------------------------- the Request

\* request_from_invocation: the Request of the call, Active (not exported).
request_from_invocation(r, app_id) ==
  [created |-> TRUE, app_id |-> app_id, exported |-> FALSE, closed |-> FALSE,
   mutex |-> "free", refs |-> 0]

g_object_ref(req) == [req EXCEPT !.refs = @ + 1]
g_object_unref(req) == [req EXCEPT !.refs = @ - 1]
REQUEST_LOCK(req, who) == [req EXCEPT !.mutex = who]
REQUEST_UNLOCK(req) == [req EXCEPT !.mutex = "free"]

\* RequestRegistry.Export: the Request becomes visible on the bus.
request_export(r) ==
  /\ idle_monitor = "object"
  /\ main = 0
  /\ invocation = NoInvocation
  /\ requests[r].created
  /\ ~requests[r].exported
  /\ ~requests[r].closed
  /\ requests[r].mutex = "free"
  /\ requests' = [requests EXCEPT ![r].exported = TRUE]
  /\ UNCHANGED <<create_vars, permissions, tasks, calls, responses, main, watch_vars, invoke_vars>>

\* RequestRegistry.Cancel: the client closes an exported Request; under the
\* Request's lock the Request is unexported.
handle_close(r) ==
  /\ idle_monitor = "object"
  /\ main = 0
  /\ invocation = NoInvocation
  /\ requests[r].created
  /\ requests[r].exported
  /\ requests[r].mutex = "free"
  /\ requests' = [requests EXCEPT ![r].exported = FALSE, ![r].closed = TRUE]
  /\ UNCHANGED <<create_vars, permissions, tasks, calls, responses, main, watch_vars, invoke_vars>>

\* ------------------------------------------------------ handle_get_idletime

\* xdp_idle_monitor_complete_get_idletime: the method returns request->id.
xdp_idle_monitor_complete_get_idletime(r) == r

\* The handler as one step of the main loop: the Request, the task queued on
\* the thread pool with its reference on the Request, the token returned.
handle_get_idletime(r, app_id) ==
  /\ idle_monitor = "object"
  /\ main = 0
  /\ invocation = NoInvocation
  /\ ~requests[r].created
  /\ \A q \in Requests : q < r => requests[q].created
  /\ requests' = [requests EXCEPT ![r] = g_object_ref(request_from_invocation(r, app_id))]
  /\ tasks' = [tasks EXCEPT ![r].pc = "queued"]
  /\ replies' = [replies EXCEPT ![r] = xdp_idle_monitor_complete_get_idletime(r)]
  /\ UNCHANGED <<create_vars, permissions, calls, responses, main, watch_vars, invocation>>

\* Another party (the user's settings, another service) sets the stored
\* permission of an application.
permission_store_set(app_id, value) ==
  /\ started
  /\ get_permission_sync(permissions, app_id, PERMISSION_TABLE, PERMISSION_ID) # value
  /\ permissions' = set_permission_sync(permissions, app_id, PERMISSION_TABLE,
                                        PERMISSION_ID, value)
  /\ UNCHANGED <<create_vars, requests, tasks, calls, responses, main, watch_vars,
                 invoke_vars>>

\* ------------------------------------------------- get_idle_monitor_allowed

\* get_idle_monitor_allowed without its test for PERMISSION_NO.
get_idle_monitor_allowed_no_deny(store, app_id, permission) ==
  IF permission = PERMISSION_UNSET
    THEN [ret |-> TRUE,
          store |-> set_permission_sync(store, app_id, PERMISSION_TABLE,
                                        PERMISSION_ID, PERMISSION_YES),
          wrote |-> TRUE]
    ELSE [ret |-> TRUE, store |-> store, wrote |-> FALSE]

\* get_idle_monitor_allowed without the write on PERMISSION_UNSET.
get_idle_monitor_allowed_no_upgrade(store, app_id, permission) ==
  IF permission = PERMISSION_NO
    THEN [ret |-> FALSE, store |-> store, wrote |-> FALSE]
    ELSE [ret |-> TRUE, store |-> store, wrote |-> FALSE]

\* get_idle_monitor_allowed writing Yes whenever it allows.
get_idle_monitor_allowed_always_set(store, app_id, permission) ==
  IF permission = PERMISSION_NO
    THEN [ret |-> FALSE, store |-> store, wrote |-> FALSE]
    ELSE [ret |-> TRUE,
          store |-> set_permission_sync(store, app_id, PERMISSION_TABLE,
                                        PERMISSION_ID, PERMISSION_YES),
          wrote |-> TRUE]

\* get_idle_monitor_allowed keeping one permission for all applications: on
\* Unset it writes Yes for every application.
get_idle_monitor_allowed_any_app(store, app_id, permission) ==
  IF permission = PERMISSION_NO
    THEN [ret |-> FALSE, store |-> store, wrote |-> FALSE]
    ELSE IF permission = PERMISSION_UNSET
      THEN [ret |-> TRUE,
            store |-> [k \in DOMAIN store |->
                         IF k[2] = PERMISSION_TABLE /\ k[3] = PERMISSION_ID
                           THEN PERMISSION_YES ELSE store[k]],
            wrote |-> TRUE]
      ELSE [ret |-> TRUE, store |-> store, wrote |-> FALSE]

\* get_idle_monitor_allowed after its read of the store gave `permission`:
\* the value returned, the store it leaves, and whether it wrote to the store.
get_idle_monitor_allowed(store, app_id, permission) ==
  IF permission = PERMISSION_NO
    THEN [ret |-> FALSE, store |-> store, wrote |-> FALSE]
    ELSE IF permission = PERMISSION_UNSET
      THEN [ret |-> TRUE,
            store |-> set_permission_sync(store, app_id, PERMISSION_TABLE,
                                          PERMISSION_ID, PERMISSION_YES),
            wrote |-> TRUE]
      ELSE [ret |-> TRUE, store |-> store, wrote |-> FALSE]

\* ------------------------------------- handle_get_idletime_in_thread_func

\* The worker takes the Request's lock and get_idle_monitor_allowed reads the
\* stored permission of the Request's application.
thread_func_get_permission(r) ==
  /\ tasks[r].pc = "queued"
  /\ requests[r].mutex = "free"
  /\ requests' = [requests EXCEPT ![r] = REQUEST_LOCK(@, "worker")]
  /\ tasks' = [tasks EXCEPT ![r].pc = "checked",
                            ![r].permission =
                               get_permission_sync(permissions, requests[r].app_id,
                                                   PERMISSION_TABLE, PERMISSION_ID)]
  /\ UNCHANGED <<create_vars, permissions, calls, responses, main, watch_vars, invoke_vars>>

\* The backend call issued with no handle.
xdp_impl_idle_monitor_call_get_idletime_no_handle(r, app_id) ==
  [state |-> "pending", handle |-> 0, app_id |-> app_id, result |-> NoResult]

\* The query handed to the backend proxy: the Request's id and the
\* application id.
xdp_impl_idle_monitor_call_get_idletime(r, app_id) ==
  [state |-> "pending", handle |-> r, app_id |-> app_id, result |-> NoResult]

\* The backend call the worker issues, given what get_idle_monitor_allowed
\* returned: none for a denied application.
thread_func_call(allowed, old, r, app_id) ==
  IF ~allowed THEN old ELSE xdp_impl_idle_monitor_call_get_idletime(r, app_id)

\* The rest of the worker: get_idle_monitor_allowed decides on the permission
\* it read (and writes Yes over Unset), then the worker returns early for a
\* denied application, or issues the backend call with a new reference on the
\* Request as the callback's data.  On return the lock is released and the
\* task's reference on the Request is dropped.
thread_func_return(r) ==
  /\ tasks[r].pc = "checked"
  /\ LET got == get_idle_monitor_allowed(permissions, requests[r].app_id,
                                         tasks[r].permission)
     IN /\ permissions' = got.store
        /\ tasks' = [tasks EXCEPT ![r].pc = "done",
                                  ![r].allowed = got.ret,
                                  ![r].wrote = got.wrote]
        /\ calls' = [calls EXCEPT ![r] =
                       thread_func_call(got.ret, @, r, requests[r].app_id)]
        /\ requests' = [requests EXCEPT ![r] =
                          IF got.ret
                            THEN g_object_unref(REQUEST_UNLOCK(g_object_ref(@)))
                            ELSE g_object_unref(REQUEST_UNLOCK(@))]
  /\ UNCHANGED <<create_vars, responses, main, watch_vars, invoke_vars>>

\* ------------------------------------- the handler and the worker, stepwise

\* The same code with every statement that another thread can observe as a
\* step of its own: the handler before and at its return of the token, and
\* the worker's permission decision, its backend call and its return.

\* g_task_run_in_thread_sync in place of g_task_run_in_thread: the handler
\* goes on when the thread function has returned.
g_task_run_in_thread_sync(r) == tasks[r].pc = "done"

\* g_task_run_in_thread queues the task and returns at once.
g_task_run_in_thread(r) == TRUE

\* The handler up to g_task_run_in_thread, on the call's arguments.
handle_get_idletime_dispatch(r, app_id, arguments) ==
  /\ idle_monitor = "object"
  /\ main = 0
  /\ invocation = NoInvocation
  /\ ~requests[r].created
  /\ \A q \in Requests : q < r => requests[q].created
  /\ requests' = [requests EXCEPT ![r] = g_object_ref(request_from_invocation(r, app_id))]
  /\ tasks' = [tasks EXCEPT ![r].pc = "queued"]
  /\ invocation' = [request |-> r, arguments |-> arguments]
  /\ UNCHANGED <<create_vars, permissions, calls, responses, main, watch_vars, replies>>

\* The handler returns the token; its reference on the task goes, and with
\* it the task's reference on the Request when the worker has returned.
handle_get_idletime_complete(r) ==
  /\ invocation.request = r
  /\ g_task_run_in_thread(r)
  /\ replies' = [replies EXCEPT ![r] = xdp_idle_monitor_complete_get_idletime(r)]
  /\ invocation' = NoInvocation
  /\ requests' = [requests EXCEPT ![r] =
                    IF tasks[r].pc = "done" THEN g_object_unref(@) ELSE @]
  /\ UNCHANGED <<create_vars, permissions, tasks, calls, responses, main, watch_vars>>

\* get_idle_monitor_allowed decides on the permission it read and writes Yes
\* over Unset.
thread_func_allowed(r) ==
  /\ tasks[r].pc = "checked"
  /\ LET got == get_idle_monitor_allowed(permissions, requests[r].app_id,
                                         tasks[r].permission)
     IN /\ permissions' = got.store
        /\ tasks' = [tasks EXCEPT ![r].pc = IF got.ret THEN "allowed" ELSE "denied",
                                  ![r].allowed = got.ret,
                                  ![r].wrote = got.wrote]
  /\ UNCHANGED <<create_vars, requests, calls, responses, main, watch_vars, invoke_vars>>

\* The worker issues the backend call, with a new reference on the Request
\* as the callback's data.
thread_func_issue(r) ==
  /\ tasks[r].pc = "allowed"
  /\ calls' = [calls EXCEPT ![r] = thread_func_call(TRUE, @, r, requests[r].app_id)]
  /\ requests' = [requests EXCEPT ![r] = g_object_ref(@)]
  /\ tasks' = [tasks EXCEPT ![r].pc = "called"]
  /\ UNCHANGED <<create_vars, permissions, responses, main, watch_vars, invoke_vars>>

\* A worker that unlocks by hand after the call and not on its early return.
thread_func_unlock_after_call(req, allowed) ==
  IF allowed THEN REQUEST_UNLOCK(req) ELSE req

\* REQUEST_AUTOLOCK's release when the thread function leaves its scope, on
\* the early return and at the end alike.
thread_func_autounlock(req, allowed) == REQUEST_UNLOCK(req)

\* The worker returns: the lock is released; the task's reference on the
\* Request goes with the task, once the handler has dropped its own.
thread_func_exit(r) ==
  /\ tasks[r].pc \in {"denied", "called"}
  /\ requests' = [requests EXCEPT ![r] =
                    LET unlocked == thread_func_autounlock(@, tasks[r].allowed)
                    IN IF invocation.request = r
                         THEN unlocked
                         ELSE g_object_unref(unlocked)]
  /\ tasks' = [tasks EXCEPT ![r].pc = "done"]
  /\ UNCHANGED <<create_vars, permissions, calls, responses, main, watch_vars, invoke_vars>>

\* ------------------------------------------------------- get_idletime_done

\* The generated _finish of the backend call: FALSE on an error, else TRUE
\* with the reply's out-argument stored through the pointer.
xdp_impl_idle_monitor_call_get_idletime_finish(result) ==
  [ret |-> result.ok, response |-> IF result.ok THEN result.out ELSE 0]

\* get_idletime_done without the fallback to 2: `response` as _finish left it.
get_idletime_done_response_no_fallback(result) ==
  xdp_impl_idle_monitor_call_get_idletime_finish(result).response

\* The value of `response` after the call to _finish.
get_idletime_done_response(result) ==
  LET fin == xdp_impl_idle_monitor_call_get_idletime_finish(result)
  IN IF ~fin.ret THEN RESPONSE_OTHER ELSE fin.response

\* get_idletime_done answering a failed call on the spot and then again on
\* the common path.
get_idletime_done_emit_on_error_too(exported, response) ==
  IF ~exported
    THEN << >>
    ELSE IF response = RESPONSE_OTHER
      THEN << [code |-> response, results |-> {}], [code |-> response, results |-> {}] >>
      ELSE << [code |-> response, results |-> {}] >>

\* get_idletime_done without its test of request->exported.
get_idletime_done_emit_unchecked(exported, response) ==
  << [code |-> response, results |-> {}] >>

\* The Response signals the callback emits: one, with an empty results
\* vardict, when the Request is exported.
get_idletime_done_emit(exported, response) ==
  IF exported THEN << [code |-> response, results |-> {}] >> ELSE << >>

\* get_idletime_done without REQUEST_AUTOLOCK: it waits for no lock.
get_idletime_done_no_autolock(req) == TRUE

\* REQUEST_AUTOLOCK at the top of get_idletime_done: the callback goes on
\* once the Request's mutex is free.
get_idletime_done_autolock(req) == req.mutex = "free"

\* The backend call has completed with `result`: the main loop enters the
\* callback, which takes the Request's lock.
get_idletime_done_lock(r, result) ==
  /\ main = 0
  /\ invocation = NoInvocation
  /\ calls[r].state = "pending"
  /\ get_idletime_done_autolock(requests[r])
  /\ main' = r
  /\ requests' = [requests EXCEPT ![r] = REQUEST_LOCK(@, "done")]
  /\ calls' = [calls EXCEPT ![r].state = "finishing", ![r].result = result]
  /\ UNCHANGED <<create_vars, permissions, tasks, responses, watch_vars, invoke_vars>>

\* The same in two steps.  The main loop calls the callback of the completed
\* call; the worker that issued the call may still hold the Request's lock.
get_idletime_done_enter(r, result) ==
  /\ main = 0
  /\ invocation = NoInvocation
  /\ calls[r].state = "pending"
  /\ main' = r
  /\ calls' = [calls EXCEPT ![r].state = "entering", ![r].result = result]
  /\ UNCHANGED <<create_vars, permissions, requests, tasks, responses, watch_vars,
                 invoke_vars>>

\* REQUEST_AUTOLOCK in the callback: the main loop waits in it for the lock.
get_idletime_done_acquire(r) ==
  /\ main = r
  /\ calls[r].state = "entering"
  /\ get_idletime_done_autolock(requests[r])
  /\ requests' = [requests EXCEPT ![r] = REQUEST_LOCK(@, "done")]
  /\ calls' = [calls EXCEPT ![r].state = "finishing"]
  /\ UNCHANGED <<create_vars, permissions, tasks, responses, main, watch_vars,
                 invoke_vars>>

\* The body of the callback, then the unlock.  The reference the callback
\* got as its data is not dropped; the GAsyncResult is gone on return.
get_idletime_done(r) ==
  /\ main = r
  /\ calls[r].state = "finishing"
  /\ responses' = [responses EXCEPT ![r] =
                     @ \o get_idletime_done_emit(
                            requests[r].exported,
                            get_idletime_done_response(calls[r].result))]
  /\ calls' = [calls EXCEPT ![r].state = "finished", ![r].result = NoResult]
  /\ requests' = [requests EXCEPT ![r] = REQUEST_UNLOCK(@)]
  /\ main' = 0
  /\ UNCHANGED <<create_vars, permissions, tasks, watch_vars, invoke_vars>>

\* ----------------------------------------------------------- the watches

\* WatchRouter.RegisterWatch / RemoveWatch: the owner of a watch id.
register_watch(w, owner) ==
  /\ idle_monitor = "object"
  /\ watches[w] = NoApp
  /\ watches' = [watches EXCEPT ![w] = owner]
  /\ UNCHANGED <<create_vars, request_vars, delivered, signal>>

remove_watch(w) ==
  /\ idle_monitor = "object"
  /\ watches[w] # NoApp
  /\ watches' = [watches EXCEPT ![w] = NoApp]
  /\ UNCHANGED <<create_vars, request_vars, delivered, signal>>

\* g_variant_lookup of an unsigned entry: the value under `key`, or the
\* variable's old value when the dictionary has no such entry.
g_variant_lookup(dict, key, old) ==
  IF \E p \in dict : p[1] = key
    THEN (CHOOSE p \in dict : p[1] = key)[2]
    ELSE old

\* g_dbus_connection_emit_signal: the clients a WatchFired(watch_id) signal
\* reaches; a NULL destination is a broadcast to every client on the bus.
g_dbus_connection_emit_signal(destination, watch_id) ==
  {[client |-> c, watch_id |-> watch_id] :
     c \in IF destination = "NULL" THEN Apps ELSE {destination}}

\* The destination and the listening flag watch_fired_cb uses.
watch_fired_destination(watch_id) == "NULL"
watch_fired_is_listening(watch_id) == TRUE

watch_fired_cb(session_id, state) ==
  /\ connected
  /\ signal' = state
  /\ LET watch_id == g_variant_lookup(state, "session-state", 0)
     IN delivered' =
          IF watch_fired_is_listening(watch_id)
            THEN delivered \cup
                   g_dbus_connection_emit_signal(watch_fired_destination(watch_id),
                                                 watch_id)
            ELSE delivered
  /\ UNCHANGED <<create_vars, request_vars, watches>>

\* ------------------------------------------------------ the specifications

RequestNext ==
  \/ \E ok \in BOOLEAN : idle_monitor_create(ok)
  \/ \E r \in Requests, a \in Apps : handle_get_idletime(r, a)
  \/ \E r \in Requests : request_export(r)
  \/ \E r \in Requests : handle_close(r)
  \/ \E r \in Requests : thread_func_get_permission(r)
  \/ \E r \in Requests : thread_func_return(r)
  \/ \E r \in Requests, res \in Results : get_idletime_done_lock(r, res)
  \/ \E r \in Requests : get_idletime_done(r)

WatchNext ==
  \/ \E ok \in BOOLEAN : idle_monitor_create(ok)
  \/ \E w \in WatchIds, a \in Apps : register_watch(w, a)
  \/ \E w \in WatchIds : remove_watch(w)
  \/ \E s \in Sessions, p \in Payloads : watch_fired_cb(s, p)

\* The request path with the handler and the worker stepwise.
ThreadNext ==
  \/ \E ok \in BOOLEAN : idle_monitor_create(ok)
  \/ \E r \in Requests, a \in Apps, args \in Arguments :
       handle_get_idletime_dispatch(r, a, args)
  \/ \E r \in Requests : handle_get_idletime_complete(r)
  \/ \E r \in Requests : thread_func_get_permission(r)
  \/ \E r \in Requests : thread_func_allowed(r)
  \/ \E r \in Requests : thread_func_issue(r)
  \/ \E r \in Requests : thread_func_exit(r)
  \/ \E r \in Requests, res \in Results : get_idletime_done_enter(r, res)
  \/ \E r \in Requests : get_idletime_done_acquire(r)
  \/ \E r \in Requests : get_idletime_done(r)

\* The stepwise request path beside another writer of the permission store.
SharedStoreNext ==
  \/ ThreadNext
  \/ \E a \in Apps, v \in Permission : permission_store_set(a, v)

Next == RequestNext \/ WatchNext \/ SharedStoreNext

\* The whole portal.
Spec == Init /\ [][Next]_vars
\* The request path alone, and the watch path alone: the two share no
\* variable but those idle_monitor_create sets.
RequestSpec == Init /\ [][RequestNext]_vars
WatchSpec == Init /\ [][WatchNext]_vars
\* The code of idle-monitor.c alone, stepwise: nothing in it exports a
\* Request, so no Request is exported here and none is closed.
ThreadSpec == Init /\ [][ThreadNext]_vars
\* The same with the scheduling the threads get: a worker thread that can
\* take its next step takes it (the store's synchronous calls return), and
\* the main loop goes on in a callback it is in once it can.
thread_func_step(r) == thread_func_allowed(r) \/ thread_func_issue(r) \/ thread_func_exit(r)
get_idletime_done_step(r) == get_idletime_done_acquire(r) \/ get_idletime_done(r)
ThreadFairness ==
  \A r \in Requests :
    WF_vars(thread_func_step(r)) /\ WF_vars(get_idletime_done_step(r))
FairThreadSpec == Init /\ [][ThreadNext]_vars /\ ThreadFairness
\* The permission store shared with another writer.
SharedStoreSpec == Init /\ [][SharedStoreNext]_vars

\* ------------------------------------------------------------ properties

HasEntry(dict, key) == \E p \in dict : p[1] = key
Stored(app_id) == permissions[PermKey(app_id, PERMISSION_TABLE, PERMISSION_ID)]
Emitted(r) == responses'[r] # responses[r]
LastResponse(r) == responses'[r][Len(responses'[r])]
CallbackReturns(r) == calls[r].state = "finishing" /\ calls'[r].state = "finished"
WorkerReturns(r) == tasks[r].pc = "checked" /\ tasks'[r].pc = "done"

\* C1: a Request gets no Response or one Response, never two or more,
\* whatever the interleaving of its worker, its completion callback and a
\* client's Close.
C1_AtMostOneResponse == \A r \in Requests : Len(responses[r]) <= 1

\* A Request that was answered once and then closed by its client.
C1_Witness ==
  \E r \in Requests :
    /\ Len(responses[r]) = 1
    /\ calls[r].state = "finished"
    /\ requests[r].closed

\* C2: a WatchFired signal for a registered watch is delivered to the client
\* that owns the watch and to no other client.
C2_OnlyToOwner ==
  [][\A d \in delivered' \ delivered :
       watches[d.watch_id] \in Apps => d.client = watches[d.watch_id]]_vars

\* C3: a watch-fired signal of the backend whose watch id no client has
\* registered, or whose payload has no "session-state" entry, is delivered to
\* no client.
C3_UnknownDropped ==
  [][(signal' # signal \/ delivered' # delivered) =>
       \A d \in delivered' \ delivered :
         /\ HasEntry(signal', "session-state")
         /\ watches[d.watch_id] # NoApp]_vars

\* C4: a Request whose worker read the permission No has no backend call
\* and no Response, in every state from then on.
C4_DeniedIsSilent ==
  \A r \in Requests :
    tasks[r].permission = PERMISSION_NO =>
      /\ calls[r] = NoCall
      /\ responses[r] = << >>

\* A denied Request whose worker has returned, while the Request is exported.
C4_Witness ==
  \E r \in Requests :
    /\ tasks[r].pc = "done"
    /\ tasks[r].permission = PERMISSION_NO
    /\ requests[r].exported

\* C5: the decision of get_idle_monitor_allowed on the permission it read:
\* No denies and leaves the store as it is, Yes allows and leaves the store
\* as it is, Unset allows and sets the application's entry to Yes.
C5_Decision ==
  [][\A r \in Requests :
       WorkerReturns(r) =>
         LET app_id == requests[r].app_id
             upgraded == [permissions EXCEPT
                            ![PermKey(app_id, PERMISSION_TABLE, PERMISSION_ID)] =
                               PERMISSION_YES]
         IN /\ tasks[r].permission = PERMISSION_NO =>
                 ~tasks'[r].allowed /\ permissions' = permissions
            /\ tasks[r].permission = PERMISSION_YES =>
                 tasks'[r].allowed /\ permissions' = permissions
            /\ tasks[r].permission = PERMISSION_UNSET =>
                 tasks'[r].allowed /\ permissions' = upgraded]_vars

\* A worker that read Unset has returned: allowed, the entry now Yes, while
\* the other application's entry is still not Yes.
C5_Witness ==
  \E r \in Requests :
    /\ tasks[r].pc = "done"
    /\ tasks[r].permission = PERMISSION_UNSET
    /\ tasks[r].allowed
    /\ Stored(requests[r].app_id) = PERMISSION_YES
    /\ \E a \in Apps : Stored(a) # PERMISSION_YES

\* C6: once a worker that read Unset has returned, the stored permission is
\* Yes; and a worker that read Yes, whether Yes was stored from the start or
\* by an earlier call, writes nothing and issues the backend call for its
\* Request and application.
C6_UpgradeOnce ==
  \A r \in Requests :
    tasks[r].pc = "done" =>
      /\ tasks[r].permission = PERMISSION_UNSET =>
           Stored(requests[r].app_id) = PERMISSION_YES
      /\ tasks[r].permission = PERMISSION_YES =>
           /\ ~tasks[r].wrote
           /\ tasks[r].allowed
           /\ calls[r].state # "none"
           /\ calls[r].handle = r
           /\ calls[r].app_id = requests[r].app_id

\* Two calls of one application: the first read Unset and wrote Yes, the
\* second read that Yes, and both were answered.
C6_Witness ==
  \E r1, r2 \in Requests :
    /\ r1 < r2
    /\ requests[r1].app_id = requests[r2].app_id
    /\ tasks[r1].pc = "done" /\ tasks[r1].permission = PERMISSION_UNSET
    /\ tasks[r1].wrote
    /\ tasks[r2].pc = "done" /\ tasks[r2].permission = PERMISSION_YES
    /\ Len(responses[r1]) = 1 /\ Len(responses[r2]) = 1

\* C7: a Request of a permitted application whose backend call has completed
\* and whose callback has run, and which no client closed, has its Response.
C7_Answered ==
  \A r \in Requests :
    (/\ tasks[r].permission \in {PERMISSION_YES, PERMISSION_UNSET}
     /\ calls[r].state = "finished"
     /\ ~requests[r].closed)
      => Len(responses[r]) = 1

\* C8: the Response to a call the backend answered with idle time T has code
\* 0 and the entry "idleTime" = T in its results.
C8_SuccessResponse ==
  [][\A r \in Requests :
       (CallbackReturns(r) /\ calls[r].result.ok /\ Emitted(r)) =>
         /\ LastResponse(r).code = 0
         /\ <<"idleTime", calls[r].result.out>> \in LastResponse(r).results]_vars

\* C9: the callback of a failed backend call emits nothing, or the one
\* Response with code 2 and empty results, whatever the error was.
C9_FailureResponse ==
  [][\A r \in Requests :
       (CallbackReturns(r) /\ ~calls[r].result.ok) =>
         \/ responses'[r] = responses[r]
         \/ responses'[r] = Append(responses[r],
                                   [code |-> 2, results |-> {}])]_vars

\* A Request answered with code 2: no reply of the backend carries 2, so its
\* call failed.
C9_Witness ==
  \E r \in Requests :
    /\ calls[r].state = "finished"
    /\ responses[r] = << [code |-> 2, results |-> {}] >>

\* C10: a Response is emitted only on a Request that is exported, and never
\* on a Request its client has closed.
C10_OnlyWhileExported ==
  [][\A r \in Requests :
       /\ Emitted(r) => requests[r].exported
       /\ requests[r].closed => ~Emitted(r)]_vars

\* The completion callback holds the lock of a Request that its client
\* closed before the backend's reply arrived.
C10_Witness ==
  \E r \in Requests :
    /\ requests[r].closed
    /\ calls[r].state = "finishing"
    /\ calls[r].result.ok

\* C11: while the handler of a GetIdletime call has not returned the token,
\* its return is enabled, wherever the worker and the backend call of that
\* Request are.
C11_ReturnEnabled ==
  \A r \in Requests :
    invocation.request = r => ENABLED handle_get_idletime_complete(r)

\* The handler has not returned yet while the worker of its Request sits in
\* the permission check, holding the Request's lock, and another Request's
\* backend call is unanswered.
C11_Witness ==
  \E r, q \in Requests :
    /\ invocation.request = r
    /\ tasks[r].pc = "checked"
    /\ calls[q].state = "pending"

\* The parts of a Request that the portal holds, and the stored permission of
\* its application.
RequestState(r) ==
  <<requests[r], tasks[r], calls[r], responses[r], replies[r],
    Stored(requests[r].app_id)>>
RequestStateNext(r) ==
  <<requests'[r], tasks'[r], calls'[r], responses'[r], replies'[r],
    permissions'[PermKey(requests[r].app_id, PERMISSION_TABLE, PERMISSION_ID)]>>

\* C12: a step of one Request (its worker, its denial, its callback on a
\* reply or on an error, its Close) changes nothing of a Request of another
\* application, whose Response the callback derives from its own result.
C12_Independent ==
  [][\A r, q \in Requests :
       (/\ r # q
        /\ requests[r].created /\ requests[q].created
        /\ requests[r].app_id # requests[q].app_id
        /\ RequestStateNext(r) # RequestState(r))
         => RequestStateNext(q) = RequestState(q)]_vars

\* Two Requests of different applications, the later one answered with the
\* backend's reply while the earlier one's call failed.
C12_Witness ==
  \E r, q \in Requests :
    /\ r < q
    /\ requests[r].created /\ requests[q].created
    /\ requests[r].app_id # requests[q].app_id
    /\ responses[r] = << [code |-> 2, results |-> {}] >>
    /\ responses[q] = << [code |-> 4200, results |-> {}] >>

\* The arguments of a backend call: its fields but for its progress.
BackendArguments(c) == [n \in DOMAIN c \ {"state", "result"} |-> c[n]]

\* C13 (as claimed): the backend call of a Request carries the window, the
\* flags and the options of the GetIdletime call.
C13_Forwarded ==
  \A r \in Requests :
    (invocation.request = r /\ calls[r].state # "none") =>
      /\ {"window", "flags", "options"} \subseteq DOMAIN BackendArguments(calls[r])
      /\ calls[r].window = invocation.arguments.window
      /\ calls[r].flags = invocation.arguments.flags
      /\ calls[r].options = invocation.arguments.options

\* C13 (amended): the backend call of a Request carries the Request's id and
\* the application id and nothing else, whatever the call's arguments were.
C13_HandleAndAppId ==
  \A r \in Requests :
    calls[r].state # "none" =>
      BackendArguments(calls[r]) = [handle |-> r, app_id |-> requests[r].app_id]

\* A call with a window, flags and options whose backend call is issued
\* before the handler has returned.
C13_Witness ==
  \E r \in Requests :
    /\ invocation.request = r
    /\ invocation.arguments.window # ""
    /\ invocation.arguments.options # {}
    /\ calls[r].state = "pending"

\* C14: when the proxy could not be created there is no interface object, no
\* watch-fired subscription, and no GetIdletime call is served.
C14_NoProxyNoPortal ==
  (started /\ impl = "NULL") =>
    /\ idle_monitor = "NULL"
    /\ ~connected
    /\ \A r \in Requests : ~requests[r].created /\ replies[r] = 0
    /\ ~ENABLED (RequestNext \/ WatchNext \/ ThreadNext)

\* idle_monitor_create has run and the proxy could not be created.
C14_Witness == started /\ impl = "NULL"

\* C15: a Request that has its Response is no longer exported.
C15_RespondedNotExported ==
  \A r \in Requests : Len(responses[r]) >= 1 => ~requests[r].exported

\* A Request is finished when its worker has returned, it has no backend
\* call left to complete, and its handler has returned.
Finished(r) ==
  /\ tasks[r].pc = "done"
  /\ calls[r].state \in {"none", "finished"}
  /\ replies[r] # 0

\* C16: this module holds no reference on a finished Request.
C16_ReferencesReleased ==
  \A r \in Requests : Finished(r) => requests[r].refs = 0

InWorker(r) == tasks[r].pc \in {"checked", "allowed", "denied", "called"}
InCallback(r) == calls[r].state = "finishing"
MainLoopIdle == main = 0 /\ invocation = NoInvocation
\* The main loop is in the callback of r and waits there for r's lock.
MainLoopWaits(r) == main = r /\ calls[r].state = "entering"
CallbackDue(q) == calls[q].state = "pending" /\ tasks[q].pc = "done"
CallbackCanStart(q) == ENABLED (\E res \in Results : get_idletime_done_enter(q, res))

\* The worker holds its Request's lock from the permission check to its
\* return, the callback holds it from its lock statement to its return, and
\* the two are never in these sections of one Request together.
CriticalSections ==
  \A r \in Requests :
    /\ InWorker(r) => requests[r].mutex = "worker"
    /\ InCallback(r) => requests[r].mutex = "done"
    /\ ~(InWorker(r) /\ InCallback(r))

\* C17 as stated: the critical sections, and while a worker holds the lock
\* of Request r, the worker of another Request q can take q's lock and a
\* callback that is due for q can start, also when the main loop waits for
\* r's lock.
C17_NeverPrevents ==
  /\ CriticalSections
  /\ \A r \in Requests : \A q \in Requests \ {r} :
       requests[r].mutex = "worker" =>
         /\ tasks[q].pc = "queued" => ENABLED thread_func_get_permission(q)
         /\ (CallbackDue(q) /\ (MainLoopIdle \/ MainLoopWaits(r))) =>
              CallbackCanStart(q)

\* C17, amended: the critical sections; the worker of q is never kept from
\* q's lock by the lock of r; a callback that is due for q can start when the
\* main loop is idle; and the main loop waits for r's lock only while r's
\* worker has issued its call and has nothing left to do but return.
C17_PerRequestLock ==
  /\ CriticalSections
  /\ \A r \in Requests :
       /\ MainLoopWaits(r) /\ requests[r].mutex # "free" =>
            /\ requests[r].mutex = "worker"
            /\ tasks[r].pc = "called"
            /\ ENABLED thread_func_exit(r)
       /\ \A q \in Requests \ {r} :
            requests[r].mutex = "worker" =>
              /\ tasks[q].pc = "queued" => ENABLED thread_func_get_permission(q)
              /\ (CallbackDue(q) /\ MainLoopIdle) => CallbackCanStart(q)

\* The worker of r has issued its call and still holds r's lock, the main
\* loop waits for that lock in r's callback, and the callback of q is due.
C17_Witness ==
  \E r, q \in Requests :
    /\ r # q
    /\ tasks[r].pc = "called" /\ requests[r].mutex = "worker"
    /\ MainLoopWaits(r)
    /\ CallbackDue(q)

\* C18: the lock is free when the worker has returned, on the early return
\* of a denied application and after the backend call alike, and when the
\* callback has returned; no lock stays held for ever (it is free again and
\* again), and the main loop does not wait for ever for a lock.
C18_LockReleased ==
  /\ [](\A r \in Requests :
          (tasks[r].pc = "done" /\ ~InCallback(r)) => requests[r].mutex = "free")
  /\ \A r \in Requests :
       /\ []<>(requests[r].mutex = "free")
       /\ []<>(~MainLoopWaits(r))

\* A denied Request after the worker's early return, and an answered call
\* after its callback: both locks free.
C18_Witness ==
  \E r, q \in Requests :
    /\ tasks[r].pc = "done" /\ ~tasks[r].allowed
    /\ requests[r].mutex = "free"
    /\ calls[q].state = "finished"
    /\ requests[q].mutex = "free"

\* C19: once get_idle_monitor_allowed has allowed a Request, and so whenever
\* its backend call has been issued, the stored permission of its
\* application is Yes, also when the worker had read Unset.
C19_StoredBeforeCall ==
  \A r \in Requests :
    (calls[r].state # "none" \/ tasks[r].pc \in {"allowed", "called"}) =>
      Stored(requests[r].app_id) = PERMISSION_YES

\* The backend call of a Request whose worker had read Unset is issued.
C19_Witness ==
  \E r \in Requests :
    /\ tasks[r].permission = PERMISSION_UNSET
    /\ calls[r].state = "pending"
    /\ tasks[r].pc = "called"

\* C20: no step of a worker turns a stored No into Yes, whoever else writes
\* to the store.
C20_NoNeverOverwritten ==
  [][\A r \in Requests :
       (tasks[r].pc = "checked" /\ tasks'[r].pc # "checked") =>
         ~(/\ Stored(requests[r].app_id) = PERMISSION_NO
           /\ permissions'[PermKey(requests[r].app_id, PERMISSION_TABLE,
                                   PERMISSION_ID)] = PERMISSION_YES)]_vars

====
